---- MODULE Spec2Model ----
(***************************************************************************)
(* Connection registry (ConnectionManager), vendor adapters and the        *)
(* orchestration service (databaseService) of the DMS backend.             *)
(*                                                                         *)
(* Concurrent callers are threads; each registry operation is split at the *)
(* points where sync.RWMutex is acquired and released and where slow I/O   *)
(* runs, so that every interleaving the lock allows is a behaviour.        *)
(***************************************************************************)
EXTENDS Integers, Sequences, FiniteSets, TLC

\* ------------------------------------------------------------------ bounds
\* Connections ever stored in the registry (each brings one Database object
\* and one pool handle).
MaxStored == 2

\* Columns and rows of a result set the driver reports.
MaxColumns == 2
MaxRows == 2

Threads == {"t1", "t2"}
Ids == {"a", "b"}

\* ------------------------------------------------------------ domain values
PostgreSQL == "postgres16.3"
Oracle11g == "oracle11g"
Oracle19c == "oracle19c"
MariaDB == "mariadb10.11"

Connected == "connected"
Disconnected == "disconnected"
Connecting == "connecting"
Error == "error"

\* An error is the chain of its wrappers, outermost first (fmt.Errorf("...: %w")
\* puts a new head on the chain); nil is the empty chain.  Comparing an error
\* with == in Go compares the whole value, so a wrapped sentinel differs from
\* the sentinel.
nil == << >>
ErrDatabaseNotFound == <<"database not found">>
ErrDatabaseNotConnected == <<"database is not connected">>
ErrAlreadyConnected == <<"database already connected">>
ErrInvalidDatabaseType == <<"invalid database type">>
ErrMissingCredentials == <<"missing credentials">>
DriverError == <<"driver error">>

Wrap(msg, err) == <<msg>> \o err

\* errors.Is(err, target) for a sentinel target: the chain ends in it.
ErrorsIs(err, target) ==
    /\ Len(err) >= Len(target)
    /\ SubSeq(err, Len(err) - Len(target) + 1, Len(err)) = target

\* --------------------------------------------------------------- Database
Database(id, name, type, host, port, username, password) ==
    [ID |-> id, Name |-> name, Type |-> type, Host |-> host, Port |-> port,
     Schema |-> "", Username |-> username, Password |-> password,
     Status |-> Disconnected]

\* The zero value of the struct (what a nil *Database stands for here).
NoDb == [ID |-> "", Name |-> "", Type |-> "", Host |-> "", Port |-> 0,
         Schema |-> "", Username |-> "", Password |-> "", Status |-> ""]

IsValid(dt) == dt \in {PostgreSQL, Oracle11g, Oracle19c, MariaDB}

\* Variant: the password check is missing.
ValidateNoPassword(db) ==
    IF db.ID = "" THEN <<"database ID is required">>
    ELSE IF db.Name = "" THEN <<"database name is required">>
    ELSE IF db.Host = "" THEN <<"host is required">>
    ELSE IF db.Port < 1 \/ db.Port > 65535 THEN <<"invalid port number">>
    ELSE IF db.Username = "" THEN <<"username is required">>
    ELSE IF ~IsValid(db.Type) THEN <<"unsupported database type">>
    ELSE nil

\* Variant: an empty host passes.
ValidateNoHost(db) ==
    IF db.ID = "" THEN <<"database ID is required">>
    ELSE IF db.Name = "" THEN <<"database name is required">>
    ELSE IF db.Port < 1 \/ db.Port > 65535 THEN <<"invalid port number">>
    ELSE IF db.Username = "" THEN <<"username is required">>
    ELSE IF db.Password = "" THEN <<"password is required">>
    ELSE IF ~IsValid(db.Type) THEN <<"unsupported database type">>
    ELSE nil

Validate(db) ==
    IF db.ID = "" THEN <<"database ID is required">>
    ELSE IF db.Name = "" THEN <<"database name is required">>
    ELSE IF db.Host = "" THEN <<"host is required">>
    ELSE IF db.Port < 1 \/ db.Port > 65535 THEN <<"invalid port number">>
    ELSE IF db.Username = "" THEN <<"username is required">>
    ELSE IF db.Password = "" THEN <<"password is required">>
    ELSE IF ~IsValid(db.Type) THEN <<"unsupported database type">>
    ELSE nil

CanConnect(db) ==
    /\ db.Host # ""
    /\ db.Port > 0
    /\ db.Username # ""
    /\ db.Password # ""

Mask == "****"

\* Variant: the password is handed out as it is.
MaskedPasswordLeak(db) == db.Password

MaskedPassword(db) == IF Len(db.Password) = 0 THEN "" ELSE Mask

\* The Database values handed to the registry directly: the registry reads
\* ID and Type only and stores the rest as given.
Requests ==
    {Database("a", "n", PostgreSQL, "h", 5432, "u", "pw"),
     Database("b", "n", Oracle19c, "h", 1521, "u", ""),
     Database("b", "n", MariaDB, "h", 3306, "u", "pw")}

\* The Database values handed to the service (handler, configuration): valid
\* ones, and ones the service must reject.
ServiceRequests ==
    {Database("a", "n", PostgreSQL, "h", 5432, "u", "pw"),
     Database("b", "n", Oracle19c, "h", 1521, "u", "pw"),
     Database("b", "n", MariaDB, "h", 3306, "u", "pw"),
     Database("a", "n", "mongo", "h", 27017, "u", "pw"),
     Database("a", "n", PostgreSQL, "h", 70000, "u", "pw")}

\* ------------------------------------------------------------ pool handle
\* *sql.DB as the registry uses it: closed once Close was called on it (by
\* anyone); closes counts the Close calls made by the adapters and registry.
NewPool == [closed |-> FALSE, closes |-> 0]
NoPool == [closed |-> FALSE, closes |-> -1]

\* Variant: Close is skipped.
PoolCloseSkipped(p, fail) == [pool |-> p, err |-> nil]

\* sql.DB.Close: idempotent; the first call closes the pool whether or not
\* closing a driver connection reports an error.
PoolClose(p, fail) ==
    [pool |-> [closed |-> TRUE, closes |-> p.closes + 1],
     err |-> IF ~p.closed /\ fail THEN DriverError ELSE nil]

\* sql.DB.PingContext: fails on a closed pool, else as the backend answers
\* within the context's deadline.
PoolPing(p, answers) == IF p.closed \/ ~answers THEN DriverError ELSE nil

\* -------------------------------------------------------------- registry
NoConn == [DB |-> 0, ConnPool |-> 0, Adapter |-> ""]

VARIABLES
    connections,  \* ConnectionManager.connections: id -> Connection (NoConn: absent)
    mu,           \* ConnectionManager.mu: the writer and the set of readers
    dbs,          \* the Database objects the registry holds or held (by reference)
    registered,   \* for each such object, the value its caller constructed
    pools,        \* the pool handles the registry holds or held
    pc,           \* where each thread is
    call,         \* each thread's arguments and locals
    ret,          \* what the registry operation returned to the thread
    sret          \* what the service operation returned to the thread

vars == <<connections, mu, dbs, registered, pools, pc, call, ret, sret>>

\* db: the Database the caller constructed, until the registry stores it (then
\* ref names the shared object); arg: that Database as it was when a method of
\* it was called; pool: a handle opened and dropped within the call; env: what
\* the backend did during a Connect.
NoCall == [svc |-> "", op |-> "", id |-> "", query |-> "", db |-> NoDb, arg |-> NoDb,
           ref |-> 0, conn |-> NoConn, pool |-> NoPool, env |-> "", probe |-> nil,
           todo |-> {}]
\* The zero value of a QueryResult (what a nil *QueryResult stands for here).
NoResult == [Columns |-> << >>, Rows |-> << >>, RowsAffected |-> 0]

NoRet == [err |-> nil, ok |-> FALSE, list |-> {}, failed |-> {}, result |-> NoResult]
NoSret == [err |-> nil, list |-> {}, db |-> 0, rows |-> 0]

\* Variant: the presence check never finds a record.
ExistsNever(id) == FALSE

Exists(id) == connections[id] # NoConn
Present == {i \in Ids : Exists(i)}

Init ==
    /\ connections = [i \in Ids |-> NoConn]
    /\ mu = [w |-> "", r |-> {}]
    /\ dbs = << >>
    /\ registered = << >>
    /\ pools = << >>
    /\ pc = [t \in Threads |-> "idle"]
    /\ call = [t \in Threads |-> NoCall]
    /\ ret = [t \in Threads |-> NoRet]
    /\ sret = [t \in Threads |-> NoSret]

\* A thread that has returned hands its result over before any other thread
\* moves on: Return touches nothing shared, so this leaves out only orders of
\* steps that differ in when a finished caller is seen to be free.
Quiet == \A u \in Threads : pc[u] # "ret"

\* --------------------------------------------------------------- the lock
\* sync.RWMutex: Lock waits until there is no writer and no reader, RLock
\* until there is no writer.
\* Variant: Lock does not wait for the readers.
CanLockOverReaders == mu.w = ""

CanLock == mu.w = "" /\ mu.r = {}
CanRLock == mu.w = ""
Locked(t) == [mu EXCEPT !.w = t]
RLocked(t) == [mu EXCEPT !.r = @ \cup {t}]
\* Variant: an exit path that returns without Unlock.
UnlockedNever == mu

Unlocked == [mu EXCEPT !.w = ""]
\* Variant: the read lock is kept (as with a deferred RUnlock).
RUnlockedLate(t) == mu

RUnlocked(t) == [mu EXCEPT !.r = @ \ {t}]

\* ---------------------------------------------------------------- Connect
createAdapter(dbType) ==
    IF dbType = PostgreSQL THEN [adapter |-> "postgres", err |-> nil]
    ELSE IF dbType = Oracle19c THEN [adapter |-> "oracle19c", err |-> nil]
    ELSE IF dbType = Oracle11g THEN [adapter |-> "oracle19c", err |-> nil]
    ELSE [adapter |-> "", err |-> ErrInvalidDatabaseType]

\* What the backend does during one Connect: sql.Open rejects the DSN, the
\* adapter's probe fails, the registry's probe fails, or all succeed.
ConnectEnvs == {"openFail", "pingFail", "ping2Fail", "ok"}

\* What the backend may do during a Connect for db that starts now.  A
\* backend that the call never contacts (the id has a record, or the type has
\* no adapter) is taken to be healthy; at most MaxStored connects ever succeed.
EnvsNow(db) ==
    IF Exists(db.ID) \/ createAdapter(db.Type).err # nil THEN {"ok"}
    ELSE IF Len(dbs) < MaxStored THEN ConnectEnvs
    ELSE ConnectEnvs \ {"ok"}

\* Variant: the adapter drops the handle without closing it when its probe fails.
AdapterConnectLeak(env) ==
    IF env = "openFail"
    THEN [pool |-> NoPool, err |-> Wrap("sql.Open failed", DriverError)]
    ELSE IF env = "pingFail"
    THEN [pool |-> NewPool, err |-> Wrap("ping failed", DriverError)]
    ELSE [pool |-> NewPool, err |-> nil]

\* Variant: the adapter returns the handle without probing it.
AdapterConnectNoProbe(env) ==
    IF env = "openFail"
    THEN [pool |-> NoPool, err |-> Wrap("sql.Open failed", DriverError)]
    ELSE [pool |-> NewPool, err |-> nil]

\* PostgresAdapter.Connect / OracleAdapter.Connect: the handle it opened
\* (NoPool: none) and the error (nil: the handle is returned).
AdapterConnect(env) ==
    IF env = "openFail"
    THEN [pool |-> NoPool, err |-> Wrap("sql.Open failed", DriverError)]
    ELSE LET ping == PoolPing(NewPool, env # "pingFail")
         IN IF ping # nil
            THEN [pool |-> PoolClose(NewPool, FALSE).pool,
                  err |-> Wrap("ping failed", ping)]
            ELSE [pool |-> NewPool, err |-> nil]

\* Variant: the handle is dropped without Close when the registry's probe fails.
ConnectBodyLeak(db, env) ==
    LET same == [connections |-> connections, dbs |-> dbs, registered |-> registered,
                 pools |-> pools, ref |-> 0, pool |-> NoPool, err |-> nil]
        made == createAdapter(db.Type)
        got == AdapterConnect(env)
        ping == PoolPing(got.pool, env # "ping2Fail")
    IN IF Exists(db.ID) THEN [same EXCEPT !.err = ErrAlreadyConnected]
       ELSE IF made.err # nil THEN [same EXCEPT !.err = made.err]
       ELSE IF got.err # nil
       THEN [same EXCEPT !.err = Wrap("failed to connect to " \o db.ID, got.err),
                         !.pool = got.pool]
       ELSE IF ping # nil
       THEN [same EXCEPT !.err = Wrap("ping failed for " \o db.ID, ping),
                         !.pool = got.pool]
       ELSE [same EXCEPT
               !.connections = [connections EXCEPT ![db.ID] =
                    [DB |-> Len(dbs) + 1, ConnPool |-> Len(pools) + 1,
                     Adapter |-> made.adapter]],
               !.dbs = Append(dbs, [db EXCEPT !.Status = Connected]),
               !.registered = Append(registered, db),
               !.pools = Append(pools, got.pool),
               !.ref = Len(dbs) + 1]

\* What the body of Connect leaves: the registry afterwards, the reference
\* under which the caller's Database object is now shared (ref, 0: it is not),
\* the handle opened and not stored (pool), the error.
ConnectBody(db, env) ==
    LET same == [connections |-> connections, dbs |-> dbs, registered |-> registered,
                 pools |-> pools, ref |-> 0, pool |-> NoPool, err |-> nil]
        made == createAdapter(db.Type)
        got == AdapterConnect(env)
        ping == PoolPing(got.pool, env # "ping2Fail")
    IN IF Exists(db.ID) THEN [same EXCEPT !.err = ErrAlreadyConnected]
       ELSE IF made.err # nil THEN [same EXCEPT !.err = made.err]
       ELSE IF got.err # nil
       THEN [same EXCEPT !.err = Wrap("failed to connect to " \o db.ID, got.err),
                         !.pool = got.pool]
       ELSE IF ping # nil
       THEN [same EXCEPT !.err = Wrap("ping failed for " \o db.ID, ping),
                         !.pool = PoolClose(got.pool, FALSE).pool]
       ELSE [same EXCEPT
               !.connections = [connections EXCEPT ![db.ID] =
                    [DB |-> Len(dbs) + 1, ConnPool |-> Len(pools) + 1,
                     Adapter |-> made.adapter]],
               !.dbs = Append(dbs, [db EXCEPT !.Status = Connected]),
               !.registered = Append(registered, db),
               !.pools = Append(pools, got.pool),
               !.ref = Len(dbs) + 1]

\* ------------------------------------------------------------- Disconnect
\* Variant: an id without a record is reported as disconnected.
DisconnectBodySilent(dbID, fail) ==
    [connections |-> connections, dbs |-> dbs, pools |-> pools,
     conn |-> connections[dbID], err |-> nil]

\* Variant: the record is closed and marked but stays in the map.
DisconnectBodyKeeps(dbID, fail) ==
    LET conn == connections[dbID]
        same == [connections |-> connections, dbs |-> dbs, pools |-> pools,
                 conn |-> conn, err |-> nil]
        closed == PoolClose(pools[conn.ConnPool], fail)
    IN IF ~Exists(dbID) THEN [same EXCEPT !.err = ErrDatabaseNotFound]
       ELSE IF closed.err # nil
       THEN [same EXCEPT !.pools = [pools EXCEPT ![conn.ConnPool] = closed.pool],
                         !.err = Wrap("failed to close connection", closed.err)]
       ELSE [same EXCEPT !.pools = [pools EXCEPT ![conn.ConnPool] = closed.pool],
                         !.dbs = [dbs EXCEPT ![conn.DB].Status = Disconnected]]

DisconnectBody(dbID, fail) ==
    LET conn == connections[dbID]
        same == [connections |-> connections, dbs |-> dbs, pools |-> pools,
                 conn |-> conn, err |-> nil]
        closed == PoolClose(pools[conn.ConnPool], fail)
    IN IF ~Exists(dbID) THEN [same EXCEPT !.err = ErrDatabaseNotFound]
       ELSE IF closed.err # nil
       THEN [same EXCEPT !.pools = [pools EXCEPT ![conn.ConnPool] = closed.pool],
                         !.err = Wrap("failed to close connection", closed.err)]
       ELSE [same EXCEPT !.pools = [pools EXCEPT ![conn.ConnPool] = closed.pool],
                         !.dbs = [dbs EXCEPT ![conn.DB].Status = Disconnected],
                         !.connections = [connections EXCEPT ![dbID] = NoConn]]

\* ---------------------------------------------------------- ExecuteQuery
\* The map lookup under the read lock and the existence check after it.
Lookup(dbID) ==
    IF Exists(dbID) THEN [conn |-> connections[dbID], err |-> nil]
    ELSE [conn |-> NoConn, err |-> ErrDatabaseNotFound]

\* PostgresAdapter.ExecuteQuery / OracleAdapter.ExecuteQuery on the handle:
\* QueryContext fails on a closed pool, else as the backend answers.
AdapterExecuteQuery(p, answers) ==
    IF p.closed \/ ~answers
    THEN [ok |-> FALSE, err |-> Wrap("query execution failed", DriverError)]
    ELSE [ok |-> TRUE, err |-> nil]

\* The adapter call on the record looked up before, and what is returned.
ExecuteQueryRun(conn, answers) ==
    LET got == AdapterExecuteQuery(pools[conn.ConnPool], answers)
    IN IF got.err # nil
       THEN [NoRet EXCEPT !.err = Wrap("query execution failed", got.err)]
       ELSE [NoRet EXCEPT !.ok = TRUE]

\* ------------------------------------------------------------ IsConnected
\* The probe of a record that exists.
Probe(dbID, answers) == PoolPing(pools[connections[dbID].ConnPool], answers)

\* Variant: the probe's outcome is ignored, the cached status decides.
IsConnectedBodyCached(conn, probe) ==
    [dbs |-> dbs, ok |-> dbs[conn.DB].Status = Connected]

\* Variant: a failed probe marks the Database as Error.
IsConnectedBodyError(conn, probe) ==
    IF probe # nil
    THEN [dbs |-> [dbs EXCEPT ![conn.DB].Status = Error], ok |-> FALSE]
    ELSE [dbs |-> dbs, ok |-> dbs[conn.DB].Status = Connected]

\* Variant: a failed probe leaves the cached status as it is.
IsConnectedBodyNoFlip(conn, probe) ==
    IF probe # nil
    THEN [dbs |-> dbs, ok |-> FALSE]
    ELSE [dbs |-> dbs, ok |-> dbs[conn.DB].Status = Connected]

\* Variant: a probe that succeeds marks the Database as Connected again.
IsConnectedBodyHeals(conn, probe) ==
    IF probe # nil
    THEN [dbs |-> [dbs EXCEPT ![conn.DB].Status = Disconnected], ok |-> FALSE]
    ELSE [dbs |-> [dbs EXCEPT ![conn.DB].Status = Connected], ok |-> TRUE]

\* After the probe: the cached status is flipped, or read.
IsConnectedBody(conn, probe) ==
    IF probe # nil
    THEN [dbs |-> [dbs EXCEPT ![conn.DB].Status = Disconnected], ok |-> FALSE]
    ELSE [dbs |-> dbs, ok |-> dbs[conn.DB].Status = Connected]

\* -------------------------------------------------------- ListConnections
\* The slice of *Database built under the read lock (map order is unspecified
\* in Go; the slice is kept as the set of its pointers).
ListConnectionsBody == {connections[i].DB : i \in Present}

\* ---------------------------------------------------------- DisconnectAll
\* Variant: the loop closes the handles and leaves the statuses as they are.
DisconnectAllBodyNoStatus(failing) ==
    LET closed == [i \in Present |->
                     PoolClose(pools[connections[i].ConnPool], i \in failing)]
        errors == {i \in Present : closed[i].err # nil}
        held == {connections[i].ConnPool : i \in Present}
        owner(h) == CHOOSE i \in Present : connections[i].ConnPool = h
    IN [pools |-> [h \in DOMAIN pools |->
                     IF h \in held THEN closed[owner(h)].pool ELSE pools[h]],
        dbs |-> dbs,
        connections |-> [i \in Ids |-> NoConn],
        ret |-> IF errors # {}
                THEN [NoRet EXCEPT !.err = <<"errors during disconnect">>,
                                   !.failed = errors]
                ELSE NoRet]

\* The loop over every record (failing: the ids whose Close reports an
\* error), the new empty map, the aggregate error.
DisconnectAllBody(failing) ==
    LET closed == [i \in Present |->
                     PoolClose(pools[connections[i].ConnPool], i \in failing)]
        errors == {i \in Present : closed[i].err # nil}
        held == {connections[i].ConnPool : i \in Present}
        refs == {connections[i].DB : i \in Present}
        owner(h) == CHOOSE i \in Present : connections[i].ConnPool = h
    IN [pools |-> [h \in DOMAIN pools |->
                     IF h \in held THEN closed[owner(h)].pool ELSE pools[h]],
        dbs |-> [r \in DOMAIN dbs |->
                     IF r \in refs THEN [dbs[r] EXCEPT !.Status = Disconnected]
                     ELSE dbs[r]],
        connections |-> [i \in Ids |-> NoConn],
        ret |-> IF errors # {}
                THEN [NoRet EXCEPT !.err = <<"errors during disconnect">>,
                                   !.failed = errors]
                ELSE NoRet]

\* ======================================================================
\* The registry's operations, called directly.  A thread enters an operation
\* when its Lock/RLock returns (Call...), then runs the locked section.

\* The thread starts a registry operation with these arguments.
Enter(t, op, args, lock) ==
    /\ Quiet /\ pc[t] = "idle"
    /\ IF lock = "w" THEN CanLock /\ mu' = Locked(t)
                     ELSE CanRLock /\ mu' = RLocked(t)
    /\ call' = [call EXCEPT ![t] = [args EXCEPT !.op = op]]
    /\ pc' = [pc EXCEPT ![t] = IF lock = "w" THEN "locked" ELSE "rlocked"]
    /\ UNCHANGED <<connections, dbs, registered, pools, ret, sret>>

\* env: what the backend of this Database would do while the call runs.
CallConnect(t) ==
    \E db \in Requests : \E env \in EnvsNow(db) :
        Enter(t, "Connect", [NoCall EXCEPT !.db = db, !.id = db.ID, !.env = env], "w")

Connect(t) ==
    /\ Quiet /\ pc[t] = "locked" /\ call[t].op = "Connect"
    /\ LET r == ConnectBody(call[t].db, call[t].env)
       IN /\ connections' = r.connections
          /\ dbs' = r.dbs
          /\ registered' = r.registered
          /\ pools' = r.pools
          /\ call' = [call EXCEPT ![t].ref = r.ref, ![t].pool = r.pool]
          /\ ret' = [ret EXCEPT ![t] = [NoRet EXCEPT !.err = r.err]]
    /\ mu' = Unlocked
    /\ pc' = [pc EXCEPT ![t] = "ret"]
    /\ UNCHANGED sret

CallDisconnect(t) ==
    \E id \in Ids : Enter(t, "Disconnect", [NoCall EXCEPT !.id = id], "w")

Disconnect(t) ==
    /\ Quiet /\ pc[t] = "locked" /\ call[t].op = "Disconnect"
    /\ \E fail \in BOOLEAN :
         LET r == DisconnectBody(call[t].id, fail)
         IN /\ connections' = r.connections
            /\ dbs' = r.dbs
            /\ pools' = r.pools
            /\ call' = [call EXCEPT ![t].conn = r.conn]
            /\ ret' = [ret EXCEPT ![t] = [NoRet EXCEPT !.err = r.err]]
    /\ mu' = Unlocked
    /\ pc' = [pc EXCEPT ![t] = "ret"]
    /\ UNCHANGED <<registered, sret>>

CallExecuteQuery(t) ==
    \E id \in Ids :
        Enter(t, "ExecuteQuery", [NoCall EXCEPT !.id = id, !.query = "q"], "r")

\* The lookup, RUnlock, and the existence check.
ExecuteQueryLookup(t) ==
    /\ Quiet /\ pc[t] = "rlocked" /\ call[t].op = "ExecuteQuery"
    /\ mu' = RUnlocked(t)
    /\ LET r == Lookup(call[t].id)
       IN /\ call' = [call EXCEPT ![t].conn = r.conn]
          /\ ret' = [ret EXCEPT ![t] = [NoRet EXCEPT !.err = r.err]]
          /\ pc' = [pc EXCEPT ![t] = IF r.err # nil THEN "ret" ELSE "io"]
    /\ UNCHANGED <<connections, dbs, registered, pools, sret>>

\* The adapter call, outside the lock.
ExecuteQuery(t) ==
    /\ Quiet /\ pc[t] = "io" /\ call[t].op = "ExecuteQuery"
    /\ \E answers \in BOOLEAN :
         ret' = [ret EXCEPT ![t] = ExecuteQueryRun(call[t].conn, answers)]
    /\ pc' = [pc EXCEPT ![t] = "ret"]
    /\ UNCHANGED <<connections, mu, dbs, registered, pools, call, sret>>

\* ------------------------------------------------- GetTables, GetColumns
\* PostgresAdapter.GetTables / OracleAdapter.GetTables on the handle.
AdapterGetTables(p, answers) ==
    IF p.closed \/ ~answers
    THEN [ok |-> FALSE, err |-> Wrap("failed to query tables", DriverError)]
    ELSE [ok |-> TRUE, err |-> nil]

GetTablesRun(conn, answers) ==
    LET got == AdapterGetTables(pools[conn.ConnPool], answers)
    IN IF got.err # nil
       THEN [NoRet EXCEPT !.err = Wrap("failed to get tables", got.err)]
       ELSE [NoRet EXCEPT !.ok = TRUE]

\* PostgresAdapter.GetColumns / OracleAdapter.GetColumns on the handle.
AdapterGetColumns(p, answers) ==
    IF p.closed \/ ~answers
    THEN [ok |-> FALSE, err |-> Wrap("failed to query columns", DriverError)]
    ELSE [ok |-> TRUE, err |-> nil]

GetColumnsRun(conn, answers) ==
    LET got == AdapterGetColumns(pools[conn.ConnPool], answers)
    IN IF got.err # nil
       THEN [NoRet EXCEPT !.err = Wrap("failed to get columns", got.err)]
       ELSE [NoRet EXCEPT !.ok = TRUE]

\* The lookup, RUnlock and existence check of GetTables and GetColumns.
LookupStep(t, op) ==
    /\ Quiet /\ pc[t] = "rlocked" /\ call[t].op = op
    /\ mu' = RUnlocked(t)
    /\ LET r == Lookup(call[t].id)
       IN /\ call' = [call EXCEPT ![t].conn = r.conn]
          /\ ret' = [ret EXCEPT ![t] = [NoRet EXCEPT !.err = r.err]]
          /\ pc' = [pc EXCEPT ![t] = IF r.err # nil THEN "ret" ELSE "io"]
    /\ UNCHANGED <<connections, dbs, registered, pools, sret>>

CallGetTables(t) ==
    \E id \in Ids : Enter(t, "GetTables", [NoCall EXCEPT !.id = id], "r")

GetTablesLookup(t) == LookupStep(t, "GetTables")

\* The adapter call, outside the lock.
GetTables(t) ==
    /\ Quiet /\ pc[t] = "io" /\ call[t].op = "GetTables"
    /\ \E answers \in BOOLEAN :
         ret' = [ret EXCEPT ![t] = GetTablesRun(call[t].conn, answers)]
    /\ pc' = [pc EXCEPT ![t] = "ret"]
    /\ UNCHANGED <<connections, mu, dbs, registered, pools, call, sret>>

CallGetColumns(t) ==
    \E id \in Ids :
        Enter(t, "GetColumns", [NoCall EXCEPT !.id = id, !.query = "tbl"], "r")

GetColumnsLookup(t) == LookupStep(t, "GetColumns")

\* The adapter call, outside the lock.
GetColumns(t) ==
    /\ Quiet /\ pc[t] = "io" /\ call[t].op = "GetColumns"
    /\ \E answers \in BOOLEAN :
         ret' = [ret EXCEPT ![t] = GetColumnsRun(call[t].conn, answers)]
    /\ pc' = [pc EXCEPT ![t] = "ret"]
    /\ UNCHANGED <<connections, mu, dbs, registered, pools, call, sret>>

CallIsConnected(t) ==
    \E id \in Ids : Enter(t, "IsConnected", [NoCall EXCEPT !.id = id], "r")

\* The lookup and, for a record that exists, the probe (under the read lock).
IsConnectedProbe(t) ==
    /\ Quiet /\ pc[t] = "rlocked" /\ call[t].op = "IsConnected"
    /\ IF ~Exists(call[t].id)
       THEN /\ ret' = [ret EXCEPT ![t] = NoRet]
            /\ mu' = RUnlocked(t)
            /\ pc' = [pc EXCEPT ![t] = "ret"]
            /\ UNCHANGED call
       ELSE /\ \E answers \in BOOLEAN :
                 call' = [call EXCEPT ![t].conn = connections[call[t].id],
                                      ![t].probe = Probe(call[t].id, answers)]
            /\ pc' = [pc EXCEPT ![t] = "probed"]
            /\ UNCHANGED <<ret, mu>>
    /\ UNCHANGED <<connections, dbs, registered, pools, sret>>

\* After the probe, to the deferred RUnlock.
IsConnected(t) ==
    /\ Quiet /\ pc[t] = "probed" /\ call[t].op = "IsConnected" /\ call[t].svc = ""
    /\ LET r == IsConnectedBody(call[t].conn, call[t].probe)
       IN /\ dbs' = r.dbs
          /\ ret' = [ret EXCEPT ![t] = [NoRet EXCEPT !.ok = r.ok]]
    /\ mu' = RUnlocked(t)
    /\ pc' = [pc EXCEPT ![t] = "ret"]
    /\ UNCHANGED <<connections, registered, pools, call, sret>>

CallListConnections(t) == Enter(t, "ListConnections", NoCall, "r")

ListConnections(t) ==
    /\ Quiet /\ pc[t] = "rlocked" /\ call[t].op = "ListConnections"
    /\ ret' = [ret EXCEPT ![t] = [NoRet EXCEPT !.list = ListConnectionsBody]]
    /\ mu' = RUnlocked(t)
    /\ pc' = [pc EXCEPT ![t] = "ret"]
    /\ UNCHANGED <<connections, dbs, registered, pools, call, sret>>

CallDisconnectAll(t) == Enter(t, "DisconnectAll", NoCall, "w")

DisconnectAll(t) ==
    /\ Quiet /\ pc[t] = "locked" /\ call[t].op = "DisconnectAll"
    /\ \E failing \in SUBSET Present :
         LET r == DisconnectAllBody(failing)
         IN /\ connections' = r.connections
            /\ dbs' = r.dbs
            /\ pools' = r.pools
            /\ ret' = [ret EXCEPT ![t] = r.ret]
    /\ mu' = Unlocked
    /\ pc' = [pc EXCEPT ![t] = "ret"]
    /\ UNCHANGED <<registered, call, sret>>

\* ------------------------------------------------------------ environment
\* A pool handle held by the registry is closed out-of-band (not through the
\* registry): from then on every use of it fails.
OutOfBandClose ==
    /\ Quiet
    /\ \E i \in Present :
         /\ ~pools[connections[i].ConnPool].closed
         /\ pools' = [pools EXCEPT ![connections[i].ConnPool].closed = TRUE]
    /\ UNCHANGED <<connections, mu, dbs, registered, pc, call, ret, sret>>

\* The caller takes the result; the thread is free for its next request.
Return(t) ==
    /\ pc[t] = "ret"
    /\ pc' = [pc EXCEPT ![t] = "idle"]
    /\ call' = [call EXCEPT ![t] = NoCall]
    /\ ret' = [ret EXCEPT ![t] = NoRet]
    /\ sret' = [sret EXCEPT ![t] = NoSret]
    /\ UNCHANGED <<connections, mu, dbs, registered, pools>>

Next ==
    \/ \E t \in Threads :
         \/ CallConnect(t)
         \/ Connect(t)
         \/ CallDisconnect(t)
         \/ Disconnect(t)
         \/ CallExecuteQuery(t)
         \/ ExecuteQueryLookup(t)
         \/ ExecuteQuery(t)
         \/ CallIsConnected(t)
         \/ IsConnectedProbe(t)
         \/ IsConnected(t)
         \/ CallListConnections(t)
         \/ ListConnections(t)
         \/ CallDisconnectAll(t)
         \/ DisconnectAll(t)
    \/ \E t \in Threads : Return(t)
    \/ OutOfBandClose

Spec == Init /\ [][Next]_vars

\* The steps of a registry operation after its Lock/RLock returned, and the
\* hand-over of its result.
Finish(t) ==
    \/ Connect(t)
    \/ Disconnect(t)
    \/ ExecuteQueryLookup(t)
    \/ ExecuteQuery(t)
    \/ IsConnectedProbe(t)
    \/ IsConnected(t)
    \/ ListConnections(t)
    \/ DisconnectAll(t)
    \/ Return(t)

\* A goroutine that can run does run, and every adapter/driver call returns
\* (the contexts carry deadlines): each thread keeps taking the steps of the
\* operation it is in.
FairSpec == Spec /\ \A t \in Threads : SF_vars(Finish(t))

\* Registration and removal of single ids only: here a record leaves the
\* registry only through a Disconnect that returned no error.
ReconnectNext ==
    \/ \E t \in Threads :
         \/ CallConnect(t)
         \/ Connect(t)
         \/ CallDisconnect(t)
         \/ Disconnect(t)
    \/ \E t \in Threads : Return(t)

ReconnectSpec == Init /\ [][ReconnectNext]_vars

\* The three operations that look a record up under the read lock and run
\* their I/O outside it, with the operations that change the registry.
LookupNext ==
    \/ \E t \in Threads :
         \/ CallConnect(t)
         \/ Connect(t)
         \/ CallDisconnect(t)
         \/ Disconnect(t)
         \/ CallDisconnectAll(t)
         \/ DisconnectAll(t)
         \/ CallExecuteQuery(t)
         \/ ExecuteQueryLookup(t)
         \/ ExecuteQuery(t)
         \/ CallGetTables(t)
         \/ GetTablesLookup(t)
         \/ GetTables(t)
         \/ CallGetColumns(t)
         \/ GetColumnsLookup(t)
         \/ GetColumns(t)
    \/ \E t \in Threads : Return(t)

LookupSpec == Init /\ [][LookupNext]_vars

\* ======================================================================
\* The service (databaseService) in front of the registry.  Here a locked
\* section of the registry runs as one step with the call that enters it: the
\* lock makes it atomic for every other thread, and waiting for the lock
\* changes no result.  IsConnected keeps its read lock from the probe to the
\* status flip, and the service's own writes happen outside every lock.

\* Variant: Validate is not called.
RegisterDatabaseChecksNoValidate(db) ==
    IF ~IsValid(db.Type) THEN ErrInvalidDatabaseType
    ELSE IF ~CanConnect(db) THEN ErrMissingCredentials
    ELSE nil

\* RegisterDatabase: the three checks before repo.Connect.
RegisterDatabaseChecks(db) ==
    IF Validate(db) # nil THEN Wrap("validation failed", Validate(db))
    ELSE IF ~IsValid(db.Type) THEN ErrInvalidDatabaseType
    ELSE IF ~CanConnect(db) THEN ErrMissingCredentials
    ELSE nil

\* RegisterDatabase: what it returns for what repo.Connect returned.
RegisterDatabaseResult(err) ==
    IF err # nil THEN Wrap("failed to connect to database", err) ELSE nil

RegisterDatabase(t) ==
    /\ Quiet /\ pc[t] = "idle"
    /\ \E db \in ServiceRequests :
         LET args == [NoCall EXCEPT !.svc = "RegisterDatabase", !.db = db, !.id = db.ID]
             bad == RegisterDatabaseChecks(db)
         IN IF bad # nil
            THEN /\ call' = [call EXCEPT ![t] = args]
                 /\ sret' = [sret EXCEPT ![t] = [NoSret EXCEPT !.err = bad]]
                 /\ UNCHANGED <<connections, dbs, registered, pools, ret>>
            ELSE /\ CanLock
                 /\ \E env \in EnvsNow(db) :
                      LET r == ConnectBody(db, env)
                      IN /\ connections' = r.connections
                         /\ dbs' = r.dbs
                         /\ registered' = r.registered
                         /\ pools' = r.pools
                         /\ call' = [call EXCEPT ![t] = [args EXCEPT !.op = "Connect",
                                        !.ref = r.ref, !.pool = r.pool, !.env = env]]
                         /\ ret' = [ret EXCEPT ![t] = [NoRet EXCEPT !.err = r.err]]
                         /\ sret' = [sret EXCEPT ![t] = [NoSret EXCEPT !.err =
                                                  RegisterDatabaseResult(r.err)]]
    /\ pc' = [pc EXCEPT ![t] = "ret"]
    /\ UNCHANGED mu

\* Variant: the query is not checked.
RequireInputsIdOnly(dbID, query) ==
    IF Len(dbID) = 0 THEN <<"dbID is required">>
    ELSE nil

\* ExecuteQuery, DisconnectDatabase, GetDatabaseInfo: the check of the inputs.
RequireInputs(dbID, query) ==
    IF Len(dbID) = 0 THEN <<"dbID is required">>
    ELSE IF Len(query) = 0 THEN <<"query is required">>
    ELSE nil

\* What the service returns when repo.IsConnected returned false.
NotConnectedResult(svc) ==
    IF svc = "ExecuteQuery" THEN ErrDatabaseNotConnected ELSE ErrDatabaseNotFound

\* The input checks and, when they pass, repo.IsConnected.  The probe and the
\* status flip are one step here: they run under the read lock, so no writer
\* comes between them, and what a reader does between them it can as well do
\* before the probe or after the flip.
CheckConnected(t, args, bad) ==
    /\ Quiet /\ pc[t] = "idle"
    /\ IF bad # nil
       THEN /\ call' = [call EXCEPT ![t] = args]
            /\ sret' = [sret EXCEPT ![t] = [NoSret EXCEPT !.err = bad]]
            /\ pc' = [pc EXCEPT ![t] = "ret"]
            /\ UNCHANGED <<dbs, ret>>
       ELSE /\ CanRLock
            /\ IF ~Exists(args.id)
               THEN /\ call' = [call EXCEPT ![t] = [args EXCEPT !.op = "IsConnected"]]
                    /\ ret' = [ret EXCEPT ![t] = NoRet]
                    /\ sret' = [sret EXCEPT ![t] = [NoSret EXCEPT !.err =
                                                       NotConnectedResult(args.svc)]]
                    /\ pc' = [pc EXCEPT ![t] = "ret"]
                    /\ UNCHANGED dbs
               ELSE \E answers \in BOOLEAN :
                      LET conn == connections[args.id]
                          probe == Probe(args.id, answers)
                          r == IsConnectedBody(conn, probe)
                      IN /\ call' = [call EXCEPT ![t] = [args EXCEPT
                                        !.op = "IsConnected", !.conn = conn, !.probe = probe]]
                         /\ dbs' = r.dbs
                         /\ ret' = [ret EXCEPT ![t] = [NoRet EXCEPT !.ok = r.ok]]
                         /\ IF ~r.ok
                            THEN /\ sret' = [sret EXCEPT ![t] = [NoSret EXCEPT !.err =
                                                       NotConnectedResult(args.svc)]]
                                 /\ pc' = [pc EXCEPT ![t] = "ret"]
                            ELSE /\ pc' = [pc EXCEPT ![t] = "checked"]
                                 /\ UNCHANGED sret
    /\ UNCHANGED <<connections, mu, registered, pools>>

ServiceExecuteQuery(t) ==
    \E dbID \in Ids \cup {""}, query \in {"", "q"} :
        CheckConnected(t, [NoCall EXCEPT !.svc = "ExecuteQuery", !.id = dbID,
                                         !.query = query],
                       RequireInputs(dbID, query))

DisconnectDatabase(t) ==
    \E dbID \in Ids \cup {""} :
        CheckConnected(t, [NoCall EXCEPT !.svc = "DisconnectDatabase", !.id = dbID],
                       RequireInputs(dbID, "-"))

\* ExecuteQuery: what it returns for what repo.ExecuteQuery returned.
ExecuteQueryResult(r) ==
    IF r.err # nil THEN [NoSret EXCEPT !.err = Wrap("query execution failed", r.err)]
    ELSE [NoSret EXCEPT !.rows = 1]

\* repo.ExecuteQuery: its lookup.
ServiceExecuteQueryLookup(t) ==
    /\ Quiet /\ pc[t] = "checked" /\ call[t].svc = "ExecuteQuery"
    /\ CanRLock
    /\ LET r == Lookup(call[t].id)
       IN /\ call' = [call EXCEPT ![t].op = "ExecuteQuery", ![t].conn = r.conn,
                                  ![t].probe = nil]
          /\ ret' = [ret EXCEPT ![t] = [NoRet EXCEPT !.err = r.err]]
          /\ IF r.err # nil
             THEN /\ sret' = [sret EXCEPT ![t] = ExecuteQueryResult(r)]
                  /\ pc' = [pc EXCEPT ![t] = "ret"]
             ELSE /\ pc' = [pc EXCEPT ![t] = "io"]
                  /\ UNCHANGED sret
    /\ UNCHANGED <<connections, mu, dbs, registered, pools>>

\* repo.ExecuteQuery: its adapter call, and the service's return.
ServiceExecuteQueryRun(t) ==
    /\ Quiet /\ pc[t] = "io" /\ call[t].svc = "ExecuteQuery"
    /\ \E answers \in BOOLEAN :
         LET r == ExecuteQueryRun(call[t].conn, answers)
         IN /\ ret' = [ret EXCEPT ![t] = r]
            /\ sret' = [sret EXCEPT ![t] = ExecuteQueryResult(r)]
    /\ pc' = [pc EXCEPT ![t] = "ret"]
    /\ UNCHANGED <<connections, mu, dbs, registered, pools, call>>

\* DisconnectDatabase: what it returns for what repo.Disconnect returned.
DisconnectDatabaseResult(err) ==
    IF err # nil THEN Wrap("failed to disconnect", err) ELSE nil

\* repo.Disconnect, and the service's return.
DisconnectDatabaseRun(t) ==
    /\ Quiet /\ pc[t] = "checked" /\ call[t].svc = "DisconnectDatabase"
    /\ CanLock
    /\ \E fail \in BOOLEAN :
         LET r == DisconnectBody(call[t].id, fail)
         IN /\ connections' = r.connections
            /\ dbs' = r.dbs
            /\ pools' = r.pools
            /\ call' = [call EXCEPT ![t].op = "Disconnect", ![t].conn = r.conn,
                                    ![t].probe = nil]
            /\ ret' = [ret EXCEPT ![t] = [NoRet EXCEPT !.err = r.err]]
            /\ sret' = [sret EXCEPT ![t] = [NoSret EXCEPT !.err =
                                               DisconnectDatabaseResult(r.err)]]
    /\ pc' = [pc EXCEPT ![t] = "ret"]
    /\ UNCHANGED <<mu, registered>>

\* repo.ListConnections for ListDatabases and GetDatabaseInfo.
Listed(t, args, bad) ==
    /\ Quiet /\ pc[t] = "idle"
    /\ IF bad # nil
       THEN /\ call' = [call EXCEPT ![t] = args]
            /\ sret' = [sret EXCEPT ![t] = [NoSret EXCEPT !.err = bad]]
            /\ pc' = [pc EXCEPT ![t] = "ret"]
            /\ UNCHANGED ret
       ELSE /\ CanRLock
            /\ call' = [call EXCEPT ![t] = [args EXCEPT !.op = "ListConnections"]]
            /\ ret' = [ret EXCEPT ![t] = [NoRet EXCEPT !.list = ListConnectionsBody]]
            /\ pc' = [pc EXCEPT ![t] = "listed"]
            /\ UNCHANGED sret
    /\ UNCHANGED <<connections, mu, dbs, registered, pools>>

ListDatabases(t) == Listed(t, [NoCall EXCEPT !.svc = "ListDatabases"], nil)

\* The masking loop writes through each pointer of the slice.
ListDatabasesMask(list) ==
    [r \in DOMAIN dbs |->
        IF r \in list THEN [dbs[r] EXCEPT !.Password = MaskedPassword(dbs[r])]
        ELSE dbs[r]]

ListDatabasesReturn(t) ==
    /\ Quiet /\ pc[t] = "listed" /\ call[t].svc = "ListDatabases"
    /\ dbs' = ListDatabasesMask(ret[t].list)
    /\ sret' = [sret EXCEPT ![t] = [NoSret EXCEPT !.list = ret[t].list]]
    /\ pc' = [pc EXCEPT ![t] = "ret"]
    /\ UNCHANGED <<connections, mu, registered, pools, call, ret>>

GetDatabaseInfo(t) ==
    \E dbID \in Ids \cup {""} :
        Listed(t, [NoCall EXCEPT !.svc = "GetDatabaseInfo", !.id = dbID],
               RequireInputs(dbID, "-"))

\* Variant: the first Database of the slice is taken, whatever its id.
FindFirst(list, dbID) ==
    IF list # {} THEN CHOOSE r \in list : TRUE ELSE 0

\* The search of the slice for the id (0: not found).
Find(list, dbID) ==
    IF \E r \in list : dbs[r].ID = dbID
    THEN CHOOSE r \in list : dbs[r].ID = dbID
    ELSE 0

GetDatabaseInfoReturn(t) ==
    /\ Quiet /\ pc[t] = "listed" /\ call[t].svc = "GetDatabaseInfo"
    /\ LET r == Find(ret[t].list, call[t].id)
       IN IF r # 0
          THEN /\ dbs' = [dbs EXCEPT ![r].Password = MaskedPassword(dbs[r])]
               /\ sret' = [sret EXCEPT ![t] = [NoSret EXCEPT !.db = r]]
          ELSE /\ sret' = [sret EXCEPT ![t] = [NoSret EXCEPT !.err = ErrDatabaseNotFound]]
               /\ UNCHANGED dbs
    /\ pc' = [pc EXCEPT ![t] = "ret"]
    /\ UNCHANGED <<connections, mu, registered, pools, call, ret>>

\* Handler.RegisterDatabase: the HTTP status it answers with for what the
\* service returned (switch err compares the error value itself).
RegisterStatus(err) ==
    IF err = nil THEN 201
    ELSE IF err = ErrAlreadyConnected THEN 409
    ELSE IF err = ErrInvalidDatabaseType THEN 400
    ELSE IF err = ErrMissingCredentials THEN 400
    ELSE 500

ServiceNext ==
    \/ \E t \in Threads :
         \/ RegisterDatabase(t)
         \/ ServiceExecuteQuery(t)
         \/ DisconnectDatabase(t)
         \/ ServiceExecuteQueryLookup(t)
         \/ ServiceExecuteQueryRun(t)
         \/ DisconnectDatabaseRun(t)
         \/ ListDatabases(t)
         \/ ListDatabasesReturn(t)
         \/ GetDatabaseInfo(t)
         \/ GetDatabaseInfoReturn(t)
    \/ \E t \in Threads : Return(t)
    \/ OutOfBandClose

ServiceSpec == Init /\ [][ServiceNext]_vars

\* The read operations of the service over a registry that its other clients
\* fill and empty directly (the registry stores what it is given, so also a
\* Database without a password).
ListNext ==
    \/ \E t \in Threads :
         \/ CallConnect(t)
         \/ Connect(t)
         \/ CallDisconnect(t)
         \/ Disconnect(t)
         \/ CallDisconnectAll(t)
         \/ DisconnectAll(t)
         \/ ListDatabases(t)
         \/ ListDatabasesReturn(t)
         \/ GetDatabaseInfo(t)
         \/ GetDatabaseInfoReturn(t)
    \/ \E t \in Threads : Return(t)

ListSpec == Init /\ [][ListNext]_vars

\* ======================================================================
\* main: the server serves requests until the signal arrives, then lists
\* the databases and disconnects each one (todo: the ids of the slice still
\* to come, in any order; ret.failed: the ids whose disconnect was logged as
\* failed).  Requests are taken to have ceased when the shutdown starts.
Serving == \A u \in Threads : pc[u] \notin {"shutdown", "shutchecked", "stopped"}

ServeRegisterDatabase(t) == Serving /\ RegisterDatabase(t)

\* dbService.ListDatabases(shutdownCtx): the slice, masked in place.
ShutdownList(t) ==
    /\ Quiet /\ Serving /\ pc[t] = "idle"
    /\ CanRLock
    /\ LET list == ListConnectionsBody
       IN /\ dbs' = ListDatabasesMask(list)
          /\ call' = [call EXCEPT ![t] = [NoCall EXCEPT !.svc = "Shutdown",
                                             !.todo = {dbs[r].ID : r \in list}]]
    /\ ret' = [ret EXCEPT ![t] = NoRet]
    /\ pc' = [pc EXCEPT ![t] = "shutdown"]
    /\ UNCHANGED <<connections, mu, registered, pools, sret>>

\* dbService.DisconnectDatabase(shutdownCtx, db.ID) up to repo.IsConnected:
\* when that is false the error is logged and the loop goes on.
ShutdownCheck(t) ==
    /\ Quiet /\ pc[t] = "shutdown"
    /\ \E id \in call[t].todo :
         LET skip == /\ call' = [call EXCEPT ![t].todo = @ \ {id}, ![t].id = id]
                     /\ ret' = [ret EXCEPT ![t].failed = @ \cup {id}]
                     /\ pc' = pc
         IN IF RequireInputs(id, "-") # nil THEN skip /\ UNCHANGED dbs
            ELSE /\ CanRLock
                 /\ IF ~Exists(id) THEN skip /\ UNCHANGED dbs
                    ELSE \E answers \in BOOLEAN :
                           LET r == IsConnectedBody(connections[id], Probe(id, answers))
                           IN /\ dbs' = r.dbs
                              /\ IF ~r.ok THEN skip
                                 ELSE /\ call' = [call EXCEPT ![t].id = id]
                                      /\ pc' = [pc EXCEPT ![t] = "shutchecked"]
                                      /\ UNCHANGED ret
    /\ UNCHANGED <<connections, mu, registered, pools, sret>>

\* repo.Disconnect for the id, and the log of its outcome.
ShutdownDisconnect(t) ==
    /\ Quiet /\ pc[t] = "shutchecked"
    /\ CanLock
    /\ \E fail \in BOOLEAN :
         LET r == DisconnectBody(call[t].id, fail)
         IN /\ connections' = r.connections
            /\ dbs' = r.dbs
            /\ pools' = r.pools
            /\ ret' = [ret EXCEPT ![t].failed =
                         IF DisconnectDatabaseResult(r.err) # nil
                         THEN @ \cup {call[t].id} ELSE @]
    /\ call' = [call EXCEPT ![t].todo = @ \ {call[t].id}]
    /\ pc' = [pc EXCEPT ![t] = "shutdown"]
    /\ UNCHANGED <<mu, registered, sret>>

\* The loop is over: "Server stopped gracefully", the process exits.
ShutdownDone(t) ==
    /\ Quiet /\ pc[t] = "shutdown" /\ call[t].todo = {}
    /\ pc' = [pc EXCEPT ![t] = "stopped"]
    /\ UNCHANGED <<connections, mu, dbs, registered, pools, call, ret, sret>>

ShutdownNext ==
    \/ \E t \in Threads :
         \/ ServeRegisterDatabase(t)
         \/ ShutdownList(t)
         \/ ShutdownCheck(t)
         \/ ShutdownDisconnect(t)
         \/ ShutdownDone(t)
    \/ \E t \in Threads : Return(t)
    \/ OutOfBandClose

ShutdownSpec == Init /\ [][ShutdownNext]_vars

\* ======================================================================
\* The methods of a Database value, called on values of every shape.
ValidateInputs ==
    {[ID |-> id, Name |-> name, Type |-> type, Host |-> host, Port |-> port,
      Schema |-> "", Username |-> username, Password |-> password,
      Status |-> Disconnected] :
        id \in {"", "a"}, name \in {"", "n"}, host \in {"", "h"},
        username \in {"", "u"}, password \in {"", "pw"},
        port \in {0, 1, 65535, 65536},
        type \in {PostgreSQL, Oracle11g, Oracle19c, MariaDB, "mongo"}}

\* db.Validate(): the receiver after the call and the error returned (the
\* method only reads its receiver).
Validated(db) == [db |-> db, err |-> Validate(db)]

ValidateCall(t) ==
    /\ Quiet /\ pc[t] = "idle"
    /\ \E db \in ValidateInputs :
         LET r == Validated(db)
         IN /\ call' = [call EXCEPT ![t] = [NoCall EXCEPT !.op = "Validate",
                                              !.arg = db, !.db = r.db]]
            /\ ret' = [ret EXCEPT ![t] = [NoRet EXCEPT !.err = r.err]]
    /\ pc' = [pc EXCEPT ![t] = "ret"]
    /\ UNCHANGED <<connections, mu, dbs, registered, pools, sret>>

ValidateNext ==
    \/ \E t \in Threads : ValidateCall(t)
    \/ \E t \in Threads : Return(t)

ValidateSpec == Init /\ [][ValidateNext]_vars

\* ======================================================================
\* What an adapter's ExecuteQuery builds from the result set of the driver.
ColumnNames == {"id", "name"}
CellValues == {"x", "y"}

SeqsUpTo(S, n) == UNION {[1..k -> S] : k \in 0..n}

\* rows.Columns(): any sequence of names; a name may occur more than once
\* (SELECT a.id, b.id ...).
ColumnSeqs == SeqsUpTo(ColumnNames, MaxColumns)

\* The rows rows.Next()/rows.Scan() deliver: one value for each column.
RowSeqs(columns) == SeqsUpTo([1..Len(columns) -> CellValues], MaxRows)

\* row := make(map[string]interface{}); for i, col := range columns
\* { row[col] = values[i] }: a later column of the same name overwrites.
RowMap(columns, values) ==
    [c \in {columns[i] : i \in 1..Len(columns)} |->
        values[CHOOSE i \in 1..Len(columns) :
                  /\ columns[i] = c
                  /\ \A j \in (i + 1)..Len(columns) : columns[j] # c]]

BuildQueryResult(columns, rows) ==
    [Columns |-> columns,
     Rows |-> [k \in 1..Len(rows) |-> RowMap(columns, rows[k])],
     RowsAffected |-> Len(rows)]

\* PostgresAdapter.ExecuteQuery / OracleAdapter.ExecuteQuery on an open
\* handle: the iteration fails (rows.Err), or the result is built.
AdapterExecuteQueryCall(t) ==
    /\ Quiet /\ pc[t] = "idle"
    /\ call' = [call EXCEPT ![t] = [NoCall EXCEPT !.op = "AdapterExecuteQuery",
                                                  !.query = "q"]]
    /\ \E columns \in ColumnSeqs : \E rows \in RowSeqs(columns) : \E fails \in BOOLEAN :
         ret' = [ret EXCEPT ![t] =
                   IF fails
                   THEN [NoRet EXCEPT !.err = Wrap("error during row iteration",
                                                   DriverError)]
                   ELSE [NoRet EXCEPT !.ok = TRUE,
                                      !.result = BuildQueryResult(columns, rows)]]
    /\ pc' = [pc EXCEPT ![t] = "ret"]
    /\ UNCHANGED <<connections, mu, dbs, registered, pools, sret>>

ResultNext ==
    \/ \E t \in Threads : AdapterExecuteQueryCall(t)
    \/ \E t \in Threads : Return(t)

ResultSpec == Init /\ [][ResultNext]_vars

\* ======================================================================
\* Properties of the registry (checked under Spec).

\* A registry operation called directly has returned to thread t.
Returned(t, op) == pc[t] = "ret" /\ call[t].svc = "" /\ call[t].op = op

\* C1: Disconnect of an id that has a record always removes the record and
\* sets its Database to Disconnected, also when closing the pool reports an
\* error (the error is returned all the same).
C1_DisconnectAlwaysRemoves ==
    \A t \in Threads :
        (Returned(t, "Disconnect") /\ call[t].conn # NoConn)
        => /\ connections[call[t].id] = NoConn
           /\ dbs[call[t].conn.DB].Status = Disconnected

\* C2: Connect for an id that already has a record returns AlreadyConnected,
\* opens no handle, leaves the registry and the existing record as they were,
\* and the Database passed in stays Disconnected and is not shared.
C2_ConnectExisting ==
    [][\A t \in Threads :
         (Connect(t) /\ connections[call[t].id] # NoConn)
         => /\ ret'[t].err = ErrAlreadyConnected
            /\ call'[t].pool = NoPool
            /\ call'[t].ref = 0
            /\ call'[t].db.Status = Disconnected
            /\ UNCHANGED <<connections, dbs, registered, pools>>]_vars

C2_Witness ==
    \E t \in Threads :
        /\ Returned(t, "Connect")
        /\ ret[t].err = ErrAlreadyConnected
        /\ connections[call[t].id] # NoConn
        /\ dbs[connections[call[t].id].DB].Status = Connected

\* C3: a Connect for an id without a record, of a supported vendor and with a
\* healthy backend, returns success whatever the other thread does, and the
\* id is in what ListConnections returns from then on (with every record that
\* was there before).
C3_HealthyConnectSucceeds ==
    \A t \in Threads :
        (/\ Returned(t, "Connect")
         /\ IsValid(call[t].db.Type)
         /\ call[t].env = "ok"
         /\ ret[t].err # ErrAlreadyConnected)
        => /\ ret[t].err = nil
           /\ connections[call[t].id] # NoConn
           /\ connections[call[t].id].DB \in ListConnectionsBody

\* C4: DisconnectAll calls Close on the pool of every record, sets every
\* such Database to Disconnected and leaves the registry empty, whichever
\* closes fail; its error is non-nil exactly when some close failed.
C4_DisconnectAll ==
    [][\A t \in Threads :
         DisconnectAll(t)
         => /\ \A i \in Ids : connections'[i] = NoConn
            /\ \A i \in Ids :
                 connections[i] # NoConn
                 => /\ dbs'[connections[i].DB].Status = Disconnected
                    /\ pools'[connections[i].ConnPool].closed
                    /\ pools'[connections[i].ConnPool].closes
                         = pools[connections[i].ConnPool].closes + 1
            /\ ret'[t].err # nil <=> ret'[t].failed # {}
            /\ \A i \in ret'[t].failed :
                 connections[i] # NoConn /\ ~pools[connections[i].ConnPool].closed]_vars

C4_Witness ==
    \E t \in Threads :
        /\ Returned(t, "DisconnectAll")
        /\ Cardinality(ret[t].failed) = 1 /\ ret[t].err # nil
        /\ \A i \in Ids : connections[i] = NoConn
        /\ Len(pools) = 2
        /\ \A h \in DOMAIN pools : pools[h].closed /\ pools[h].closes = 1
        /\ \A r \in DOMAIN dbs : dbs[r].Status = Disconnected

\* C5: a Connect for an id without a record fails when there is no adapter
\* for the type, when sql.Open or the adapter's probe fails, or when the
\* registry's probe fails (a canceled context fails the probes); when it
\* fails it stores nothing, shares and changes no Database, and the handle
\* it opened, if any, is closed.
C5_ConnectFailure ==
    [][\A t \in Threads :
         (Connect(t) /\ connections[call[t].id] = NoConn)
         => /\ (call[t].env # "ok"
                 \/ call[t].db.Type \notin {PostgreSQL, Oracle11g, Oracle19c})
                => ret'[t].err # nil
            /\ ret'[t].err # nil
                => /\ UNCHANGED <<connections, dbs, registered, pools>>
                   /\ call'[t].ref = 0
                   /\ call'[t].db.Status = Disconnected
                   /\ call'[t].pool = NoPool \/ call'[t].pool.closed]_vars

C5_Witness ==
    \E t \in Threads :
        /\ Returned(t, "Connect")
        /\ call[t].env = "ping2Fail"
        /\ ret[t].err # nil
        /\ call[t].pool.closed
        /\ connections[call[t].id] = NoConn

\* C10: Disconnect of an id without a record returns DatabaseNotFound and
\* changes nothing.
C10_DisconnectAbsent ==
    [][\A t \in Threads :
         (Disconnect(t) /\ connections[call[t].id] = NoConn)
         => /\ ret'[t].err = ErrDatabaseNotFound
            /\ UNCHANGED <<connections, dbs, registered, pools>>]_vars

C10_Witness ==
    \E t \in Threads :
        /\ Returned(t, "Disconnect")
        /\ ret[t].err = ErrDatabaseNotFound
        /\ \E i \in Ids : connections[i] # NoConn

\* ======================================================================
\* Properties of the service (checked under ServiceSpec and ListSpec).

\* A service operation has returned to thread t.
ServiceReturned(t, svc) == pc[t] = "ret" /\ call[t].svc = svc

\* The Database objects held by the records of the registry.
Held == {connections[i].DB : i \in {j \in Ids : connections[j] # NoConn}}

\* C6: a successful Connect leaves the record with status Connected, and the
\* status of a record leaves Connected only by a failed probe of IsConnected;
\* IsConnected returns true when its probe is answered and the status is
\* Connected; when the handle is closed (out-of-band) the next IsConnected
\* returns false and flips the status, and the ExecuteQuery of the service
\* that made the call returns NotConnected.
C6_IsConnected ==
    [][/\ \A t \in Threads :
            /\ (RegisterDatabase(t) /\ sret'[t].err = nil /\ call'[t].op = "Connect")
               => /\ connections'[call'[t].id].DB = call'[t].ref
                  /\ dbs'[call'[t].ref].Status = Connected
            /\ ((ServiceExecuteQuery(t) \/ DisconnectDatabase(t))
                    /\ call'[t].conn # NoConn)
               => LET h == call'[t].conn.ConnPool
                      r == call'[t].conn.DB
                  IN /\ pools[h].closed
                        => ~ret'[t].ok /\ dbs'[r].Status = Disconnected
                     /\ (call'[t].probe = nil /\ dbs[r].Status = Connected)
                        => ret'[t].ok
                     /\ (~ret'[t].ok /\ call'[t].svc = "ExecuteQuery")
                        => sret'[t].err = ErrDatabaseNotConnected /\ pc'[t] = "ret"
       /\ \A r \in DOMAIN dbs :
            (r \in Held' /\ dbs[r].Status = Connected /\ dbs'[r].Status # Connected)
            => \E t \in Threads :
                 /\ pc[t] = "idle" /\ call'[t].op = "IsConnected"
                 /\ call'[t].conn.DB = r /\ call'[t].probe # nil]_vars

C6_Witness ==
    \E t \in Threads :
        /\ ServiceReturned(t, "ExecuteQuery")
        /\ call[t].conn # NoConn
        /\ pools[call[t].conn.ConnPool].closed
        /\ pools[call[t].conn.ConnPool].closes = 0
        /\ ~ret[t].ok
        /\ sret[t].err = ErrDatabaseNotConnected

\* C7: a query through the service for an id that was registered and whose
\* record has been removed again returns NotFound.
C7_QueryAfterDisconnect ==
    \A t \in Threads :
        (/\ ServiceReturned(t, "ExecuteQuery")
         /\ call[t].id # "" /\ call[t].query # ""
         /\ connections[call[t].id] = NoConn
         /\ \E r \in DOMAIN dbs : dbs[r].ID = call[t].id)
        => ErrorsIs(sret[t].err, ErrDatabaseNotFound)

\* C8: DisconnectDatabase returns NotFound only for an id without a record;
\* for an id with a record it calls Disconnect of the registry, whatever the
\* cached status is and whether or not the probe succeeds.
C8_DisconnectDelegates ==
    \A t \in Threads :
        (ServiceReturned(t, "DisconnectDatabase") /\ call[t].id # "")
        => /\ ErrorsIs(sret[t].err, ErrDatabaseNotFound)
              => connections[call[t].id] = NoConn
           /\ connections[call[t].id] # NoConn => call[t].op = "Disconnect"

\* C9: every Database returned by ListDatabases or GetDatabaseInfo has the
\* fixed mask as password when it was registered with a non-empty password
\* and the empty string when it was registered with none; also when the call
\* is repeated and when the other thread is inside such a call.
C9_PasswordMasked ==
    \A t \in Threads :
        LET returned == IF ServiceReturned(t, "ListDatabases") THEN sret[t].list
                        ELSE IF ServiceReturned(t, "GetDatabaseInfo") /\ sret[t].db # 0
                        THEN {sret[t].db}
                        ELSE {}
        IN \A r \in returned :
             dbs[r].Password = IF registered[r].Password = "" THEN "" ELSE Mask

C9_Witness ==
    \E t \in Threads :
        /\ ServiceReturned(t, "ListDatabases")
        /\ \E r \in sret[t].list :
             registered[r].Password = "pw" /\ dbs[r].Password = Mask
        /\ \E r \in sret[t].list :
             registered[r].Password = "" /\ dbs[r].Password = ""
        /\ \E u \in Threads \ {t} : pc[u] = "listed"


\* ======================================================================
\* Properties of adapter selection, validation and the transport boundary.

\* C11: a Connect for a Database that passes Validate (so its type is one of
\* the supported four) never fails with InvalidDatabaseType.
C11_ValidatedTypeHasAdapter ==
    \A t \in Threads :
        (Returned(t, "Connect") /\ Validate(call[t].db) = nil)
        => ~ErrorsIs(ret[t].err, ErrInvalidDatabaseType)


\* C12: Validate rejects exactly the Database values with an empty id, name,
\* host, username or password, a port outside 1..65535 or a type outside the
\* supported four, accepts every other value, and leaves the Database as it
\* was.
C12_ValidateExact ==
    \A t \in Threads :
        Returned(t, "Validate")
        => LET db == call[t].arg
           IN /\ ret[t].err # nil
                 <=> \/ db.ID = "" \/ db.Name = "" \/ db.Host = ""
                     \/ db.Username = "" \/ db.Password = ""
                     \/ db.Port \notin 1..65535
                     \/ db.Type \notin {PostgreSQL, Oracle11g, Oracle19c, MariaDB}
              /\ call[t].db = db

C12_Witness ==
    \E t \in Threads :
        /\ Returned(t, "Validate")
        /\ call[t].arg = [Database("a", "n", MariaDB, "h", 65536, "u", "pw")
                             EXCEPT !.Status = Disconnected]
        /\ ret[t].err = <<"invalid port number">>
        /\ call[t].db = call[t].arg


\* C13: RegisterDatabase calls Connect of the registry only when Validate,
\* the type check and CanConnect all pass; when one fails it returns the error
\* of the first failing check (Validate's, wrapped, before the type check's),
\* enters no registry operation, contacts no backend and leaves the registry
\* as it was.
C13_RegisterChecksFirst ==
    [][\A t \in Threads :
         RegisterDatabase(t)
         => LET db == call'[t].db
                failing == \/ Validate(db) # nil
                           \/ ~IsValid(db.Type)
                           \/ ~CanConnect(db)
            IN /\ failing
                  => /\ sret'[t].err # nil
                     /\ Validate(db) # nil
                        => sret'[t].err = Wrap("validation failed", Validate(db))
                     /\ call'[t].op = "" /\ call'[t].env = ""
                     /\ call'[t].pool = NoPool /\ call'[t].ref = 0
                     /\ UNCHANGED <<connections, dbs, registered, pools>>
               /\ ~failing => call'[t].op = "Connect"]_vars

C13_Witness ==
    \E t \in Threads :
        /\ ServiceReturned(t, "RegisterDatabase")
        /\ call[t].db.Port = 70000
        /\ sret[t].err = Wrap("validation failed", <<"invalid port number">>)
        /\ call[t].op = ""
        /\ \E i \in Ids : connections[i] # NoConn


\* C14: a register request for an id that already has a record (the registry
\* raised AlreadyConnected) is answered with 409 Conflict by the handler.
C14_DuplicateIsConflict ==
    \A t \in Threads :
        (ServiceReturned(t, "RegisterDatabase") /\ ret[t].err = ErrAlreadyConnected)
        => RegisterStatus(sret[t].err) = 409


\* ======================================================================
\* Properties of sharing and locking.

\* C15: what ListConnections returned is a copy: a caller writing to a
\* returned Database (the service masking the password) changes no Database
\* held by a record, and a Database a caller holds from ListConnections does
\* not change while the caller holds it, whatever the registry does.
C15_ListIsSnapshot ==
    [][\A t \in Threads :
         /\ (ListDatabasesReturn(t) \/ GetDatabaseInfoReturn(t))
            => \A r \in Held : dbs'[r] = dbs[r]
         /\ (pc[t] = "listed" /\ pc'[t] = "listed")
            => \A r \in ret[t].list : dbs'[r] = dbs[r]]_vars


\* C16: while the adapter I/O of ExecuteQuery, GetTables or GetColumns runs
\* for an id, the thread holds no registry lock, and the other thread can
\* start a Connect, a Disconnect or a lookup for another id and, once started,
\* do its locked section.
C16_NoLockDuringIO ==
    \A t \in Threads :
        pc[t] = "io"
        => /\ t \notin mu.r /\ mu.w # t
           /\ \A u \in Threads \ {t} :
                /\ pc[u] = "idle"
                   => \A i \in Ids \ {call[t].id} :
                        /\ \E db \in Requests : \E env \in EnvsNow(db) :
                             /\ db.ID = i
                             /\ ENABLED Enter(u, "Connect",
                                    [NoCall EXCEPT !.db = db, !.id = i, !.env = env], "w")
                        /\ ENABLED Enter(u, "Disconnect", [NoCall EXCEPT !.id = i], "w")
                        /\ ENABLED Enter(u, "ExecuteQuery",
                                    [NoCall EXCEPT !.id = i, !.query = "q"], "r")
                /\ pc[u] = "locked"
                   => ENABLED (Connect(u) \/ Disconnect(u) \/ DisconnectAll(u))
                /\ pc[u] = "rlocked"
                   => ENABLED (ExecuteQueryLookup(u) \/ GetTablesLookup(u)
                                \/ GetColumnsLookup(u))

C16_Witness ==
    \E t, u \in Threads :
        /\ pc[t] = "io" /\ call[t].op = "GetTables" /\ call[t].id = "a"
        /\ pc[u] = "locked" /\ call[u].op = "Disconnect" /\ call[u].id = "b"
        /\ connections["b"] # NoConn
        /\ mu.w = u /\ mu.r = {}


\* C17: while IsConnected waits on the probe of a record (the lookup found
\* it, the deferred RUnlock has not run), the other thread can acquire the
\* exclusive lock for a Connect or a Disconnect of another id.
C17_ProbeDoesNotBlock ==
    \A t \in Threads :
        /\ pc[t] \in {"rlocked", "probed"}
        /\ call[t].op = "IsConnected"
        /\ Exists(call[t].id)
        => \A u \in Threads \ {t} :
             pc[u] = "idle"
             => \A i \in Ids \ {call[t].id} :
                  /\ ENABLED Enter(u, "Disconnect", [NoCall EXCEPT !.id = i], "w")
                  /\ \E db \in Requests : \E env \in EnvsNow(db) :
                       /\ db.ID = i
                       /\ ENABLED Enter(u, "Connect",
                              [NoCall EXCEPT !.db = db, !.id = i, !.env = env], "w")


\* C18: a thread in the locked section of Connect, Disconnect or DisconnectAll
\* holds the exclusive lock, and then no other thread holds the exclusive or
\* the read lock: no other thread is in such a section nor in the locked
\* section of a read operation.
C18_MutualExclusion ==
    \A t \in Threads :
        /\ pc[t] = "locked" <=> mu.w = t
        /\ pc[t] \in {"rlocked", "probed"} <=> t \in mu.r
        /\ pc[t] = "locked"
           => /\ call[t].op \in {"Connect", "Disconnect", "DisconnectAll"}
              /\ mu.r = {}
              /\ \A u \in Threads \ {t} : pc[u] \notin {"locked", "rlocked", "probed"}

C18_Witness ==
    \E t, u \in Threads :
        /\ pc[t] = "locked" /\ call[t].op = "DisconnectAll" /\ mu.w = t
        /\ pc[u] = "io" /\ call[u].op = "ExecuteQuery"
        /\ Present # {}


\* C19: when IsConnected is about to flip the status of a Database (its probe
\* failed; it holds only the read lock), no other thread is in IsConnected on
\* the same Database, and no other thread holds that Database in the slice it
\* got from ListConnections.
C19_NoConcurrentStatusWrite ==
    \A t \in Threads :
        /\ pc[t] = "probed"
        /\ call[t].op = "IsConnected"
        /\ call[t].probe # nil
        => \A u \in Threads \ {t} :
             /\ ~(/\ pc[u] = "probed"
                  /\ call[u].op = "IsConnected"
                  /\ call[u].conn.DB = call[t].conn.DB)
             /\ call[t].conn.DB \notin ret[u].list


\* C20: when the adapter I/O of ExecuteQuery, GetTables or GetColumns runs on
\* a handle that was closed after the lookup, the operation returns an error
\* and no result, the step changes nothing in the registry, and the record it
\* looked up is no longer in the registry and its Database is Disconnected.
C20_ClosedHandleFailsCleanly ==
    [][\A t \in Threads :
         (/\ ExecuteQuery(t) \/ GetTables(t) \/ GetColumns(t)
          /\ pools[call[t].conn.ConnPool].closed)
         => /\ ret'[t].err # nil /\ ~ret'[t].ok
            /\ UNCHANGED <<connections, dbs, registered, pools>>
            /\ connections[call[t].id] # call[t].conn
            /\ dbs[call[t].conn.DB].Status = Disconnected]_vars

\* ======================================================================
\* Properties of the status and of the service's inputs

\* C21: a Database enters the registry constructed as Disconnected and becomes
\* Connected by a Connect that returns no error; afterwards its status changes
\* only from Connected to Disconnected, by Disconnect, DisconnectAll or an
\* IsConnected whose probe failed; a Database a failed Connect was given stays
\* Disconnected, and no status is ever Connecting or Error.
C21_StatusTransitions ==
    [][/\ \A r \in DOMAIN dbs' :
            /\ dbs'[r].Status \in {Connected, Disconnected}
            /\ r \notin DOMAIN dbs
               => /\ registered'[r].Status = Disconnected
                  /\ dbs'[r].Status = Connected
                  /\ \E t \in Threads :
                       Connect(t) /\ ret'[t].err = nil /\ call'[t].ref = r
            /\ (r \in DOMAIN dbs /\ dbs'[r].Status # dbs[r].Status)
               => /\ dbs[r].Status = Connected /\ dbs'[r].Status = Disconnected
                  /\ \E t \in Threads :
                       \/ Disconnect(t)
                       \/ DisconnectAll(t)
                       \/ IsConnected(t) /\ call[t].probe # nil /\ call[t].conn.DB = r
       /\ \A t \in Threads :
            call'[t].db.Status \in {Disconnected, ""}]_vars

C21_Witness ==
    \E t \in Threads :
        /\ Returned(t, "IsConnected") /\ call[t].probe # nil
        /\ dbs[call[t].conn.DB].Status = Disconnected
        /\ connections[call[t].id] = call[t].conn
        /\ \E r \in DOMAIN dbs : dbs[r].Status = Connected

\* C22: a Database's status becomes Connected only in a Connect during which
\* the backend let the adapter open the handle, answered the adapter's probe
\* and answered the registry's second probe; that Connect returns no error
\* and the handle it stores is open.
C22_ConnectedOnlyAfterProbes ==
    [][\A r \in DOMAIN dbs' :
         (dbs'[r].Status = Connected /\ (r \in DOMAIN dbs => dbs[r].Status # Connected))
         => \E t \in Threads :
              /\ Connect(t)
              /\ call[t].env \notin {"openFail", "pingFail", "ping2Fail"}
              /\ ret'[t].err = nil
              /\ connections'[call[t].id].DB = r
              /\ ~pools'[connections'[call[t].id].ConnPool].closed
              /\ pools'[connections'[call[t].id].ConnPool].closes = 0]_vars

C22_Witness ==
    \E t \in Threads :
        /\ Returned(t, "Connect") /\ ret[t].err = nil /\ call[t].env = "ok"
        /\ call[t].ref # 0 /\ dbs[call[t].ref].Status = Connected
        /\ registered[call[t].ref].Status = Disconnected

\* C23: service ExecuteQuery, DisconnectDatabase and GetDatabaseInfo called
\* with an empty id, and ExecuteQuery called with an empty query, return an
\* error without calling the registry: no lock is taken, no probe runs, and
\* the records, their Databases (cached statuses included) and the handles
\* are unchanged.
C23_EmptyInputsRejected ==
    [][\A t \in Threads :
         (/\ ServiceExecuteQuery(t) \/ DisconnectDatabase(t) \/ GetDatabaseInfo(t)
          /\ \/ call'[t].id = ""
             \/ call'[t].svc = "ExecuteQuery" /\ call'[t].query = "")
         => /\ sret'[t].err # nil
            /\ pc'[t] = "ret"
            /\ call'[t].op = "" /\ call'[t].probe = nil /\ call'[t].conn = NoConn
            /\ ret'[t] = NoRet
            /\ UNCHANGED <<connections, mu, dbs, registered, pools>>]_vars

C23_Witness ==
    \E t \in Threads :
        /\ ServiceReturned(t, "ExecuteQuery")
        /\ call[t].id = "a" /\ call[t].query = ""
        /\ sret[t].err = <<"query is required">>
        /\ Exists("a")
        /\ pools[connections["a"].ConnPool].closed
        /\ dbs[connections["a"].DB].Status = Connected

\* ======================================================================
\* Properties of query results

\* C24: in every QueryResult an adapter's ExecuteQuery returns, each row
\* mapping has as many keys as the result has columns, whatever sequence of
\* column names the driver reported.
C24_ColumnsMatchKeys ==
    \A t \in Threads :
        (pc[t] = "ret" /\ call[t].op = "AdapterExecuteQuery" /\ ret[t].ok)
        => \A k \in 1..Len(ret[t].result.Rows) :
             Cardinality(DOMAIN ret[t].result.Rows[k]) = Len(ret[t].result.Columns)

\* ======================================================================
\* Properties of IsConnected and of lookups by id

\* C25: registry IsConnected returns false for an id without a record and
\* runs no probe; for an id with a record it returns false and sets the cached
\* status to Disconnected when the probe failed, and else returns true exactly
\* when the cached status is Connected.  Nothing else changes: no record is
\* added or removed, no handle is closed, no other field is written.
C25_IsConnected ==
    [][\A t \in Threads :
         /\ (IsConnectedProbe(t) /\ ~Exists(call[t].id))
            => /\ pc'[t] = "ret" /\ ~ret'[t].ok
               /\ call'[t].probe = nil /\ call'[t].conn = NoConn
               /\ dbs' = dbs
         /\ (IsConnectedProbe(t) /\ Exists(call[t].id))
            => /\ pc'[t] = "probed" /\ dbs' = dbs
               /\ call'[t].conn = connections[call[t].id]
         /\ IsConnected(t)
            => LET r == call[t].conn.DB
               IN /\ call[t].probe # nil
                     => /\ ~ret'[t].ok
                        /\ dbs' = [dbs EXCEPT ![r].Status = Disconnected]
                  /\ call[t].probe = nil
                     => /\ ret'[t].ok <=> dbs[r].Status = Connected
                        /\ dbs' = dbs
         /\ (IsConnectedProbe(t) \/ IsConnected(t))
            => UNCHANGED <<connections, registered, pools>>]_vars

C25_Witness ==
    \E t \in Threads :
        /\ Returned(t, "IsConnected")
        /\ connections[call[t].id] = call[t].conn /\ call[t].conn # NoConn
        /\ call[t].probe = nil
        /\ ~ret[t].ok
        /\ dbs[call[t].conn.DB].Status = Disconnected
        /\ ~pools[call[t].conn.ConnPool].closed

\* C26: GetDatabaseInfo with a non-empty id lists the records; the id has a
\* record at that moment exactly when the slice holds a Database of that id
\* (the one of its record).  It then returns that Database when there is one,
\* and the NotFound error exactly when there is none.
C26_GetDatabaseInfo ==
    [][\A t \in Threads :
         /\ (GetDatabaseInfo(t) /\ call'[t].id # "")
            => LET hits == {r \in ret'[t].list : dbs[r].ID = call'[t].id}
               IN /\ pc'[t] = "listed"
                  /\ hits = IF Exists(call'[t].id)
                            THEN {connections[call'[t].id].DB} ELSE {}
         /\ GetDatabaseInfoReturn(t)
            => LET hits == {r \in ret[t].list : dbs[r].ID = call[t].id}
               IN /\ hits # {}
                     => /\ sret'[t].err = nil
                        /\ sret'[t].db \in hits
                        /\ dbs'[sret'[t].db].ID = call[t].id
                  /\ hits = {} <=> sret'[t].err = ErrDatabaseNotFound
                  /\ hits = {} => sret'[t].db = 0]_vars

C26_Witness ==
    \E t \in Threads :
        /\ ServiceReturned(t, "GetDatabaseInfo")
        /\ call[t].id = "b"
        /\ Cardinality(ret[t].list) = 2
        /\ sret[t].err = nil
        /\ sret[t].db = connections["b"].DB
        /\ dbs[sret[t].db].ID = "b"

\* ======================================================================
\* Properties of a record's lifetime

\* C27: once a Disconnect has removed the record of an id, a Connect for that
\* id whose backend is healthy returns no error, stores a new record with a
\* new Database reference and a new, open pool handle, and sets the status to
\* Connected.
C27_ReconnectAfterDisconnect ==
    [][\A t \in Threads :
         (/\ Connect(t)
          /\ ~Exists(call[t].id)
          /\ \E r \in DOMAIN dbs : dbs[r].ID = call[t].id
          /\ call[t].env = "ok")
         => /\ ret'[t].err = nil
            /\ connections'[call[t].id] # NoConn
            /\ connections'[call[t].id].DB \notin DOMAIN dbs
            /\ connections'[call[t].id].ConnPool \notin DOMAIN pools
            /\ ~pools'[connections'[call[t].id].ConnPool].closed
            /\ dbs'[connections'[call[t].id].DB].Status = Connected]_vars

\* C28: no step of service ListDatabases or GetDatabaseInfo changes a record
\* of the registry or a Database object a record holds or held: afterwards
\* the password and every other field of each such Database are as before.
C28_ReadsLeaveRecords ==
    [][\A t \in Threads :
         (\/ ListDatabases(t) \/ ListDatabasesReturn(t)
          \/ GetDatabaseInfo(t) \/ GetDatabaseInfoReturn(t))
         => UNCHANGED <<connections, dbs, registered, pools>>]_vars

\* C29: the handle of every record in the registry is one on which neither
\* the registry nor an adapter has called Close.
C29_PresentHandleNeverClosed ==
    \A i \in Present : pools[connections[i].ConnPool].closes = 0

\* C30: while a record stays in the registry, a cached status that is
\* Disconnected stays Disconnected whatever operation runs (a Connect for
\* the id included), and an IsConnected for the id returns false also when
\* its probe succeeded.
C30_DisconnectedIsSticky ==
    [][/\ \A i \in Present :
            (/\ connections'[i] = connections[i]
             /\ dbs[connections[i].DB].Status = Disconnected)
            => dbs'[connections[i].DB].Status = Disconnected
       /\ \A t \in Threads :
            (/\ IsConnected(t)
             /\ connections[call[t].id] = call[t].conn
             /\ dbs[call[t].conn.DB].Status = Disconnected)
            => ~ret'[t].ok]_vars

C30_Witness ==
    \E t \in Threads :
        /\ Returned(t, "Connect") /\ ret[t].err = ErrAlreadyConnected
        /\ Exists(call[t].id)
        /\ dbs[connections[call[t].id].DB].Status = Disconnected
        /\ ~pools[connections[call[t].id].ConnPool].closed

\* ======================================================================
\* Properties of ownership, shutdown and termination

\* C31: whenever no thread is inside an exclusive section, a Database whose
\* status is Connected is the Database of the record the registry holds under
\* its id; a Database whose record was removed, and a Database a caller
\* constructed that was never stored, is not Connected.
C31_ConnectedIsPresent ==
    /\ \A r \in DOMAIN dbs :
         dbs[r].Status = Connected
         => /\ Exists(dbs[r].ID)
            /\ connections[dbs[r].ID].DB = r
    /\ \A t \in Threads : call[t].db.Status # Connected

C31_Witness ==
    /\ mu.w = ""
    /\ \E r, q \in DOMAIN dbs :
         /\ r \notin Held /\ dbs[r].Status = Disconnected
         /\ q \in Held /\ dbs[q].Status = Connected
         /\ pools[connections[dbs[q].ID].ConnPool].closed

\* C32: every pool handle an adapter opened is held by exactly one record of
\* the registry or has had Close called on it: a handle the registry stored
\* and no longer holds was closed, a handle opened and not stored (a probe
\* failed) was closed, and no two records hold the same handle.
C32_NoHandleLeakedOrShared ==
    /\ \A h \in DOMAIN pools :
         LET holders == {i \in Present : connections[i].ConnPool = h}
         IN /\ Cardinality(holders) <= 1
            /\ holders = {} => pools[h].closes >= 1
    /\ \A i \in Present : connections[i].ConnPool \in DOMAIN pools
    /\ \A t \in Threads :
         (call[t].op = "Connect" /\ pc[t] = "ret" /\ call[t].env # "openFail")
         => \/ call[t].pool = NoPool /\ (ret[t].err = nil <=> call[t].ref # 0)
            \/ call[t].pool # NoPool /\ call[t].pool.closes >= 1

C32_Witness ==
    \E t \in Threads :
        /\ Returned(t, "Connect")
        /\ call[t].env = "pingFail"
        /\ call[t].pool # NoPool /\ call[t].pool.closes = 1
        /\ Len(pools) = 2
        /\ Cardinality(Present) = 1
        /\ \E h \in DOMAIN pools : pools[h].closes = 1 /\ h \notin {connections[i].ConnPool : i \in Present}

\* C33: of two Disconnect calls for the same id with a record, the one that
\* gets the lock first, when Close reports no error, returns no error, removes
\* the record and calls Close on the handle once; the other then finds no
\* record, returns DatabaseNotFound and changes nothing; no later step calls
\* Close on that handle again.
C33_DisconnectAtMostOnce ==
    [][/\ \A t \in Threads :
            Disconnect(t)
            => LET id == call[t].id
                   h == connections[id].ConnPool
               IN /\ (Exists(id) /\ pools[h].closes = 0 /\ ret'[t].err = nil)
                     => /\ connections'[id] = NoConn
                        /\ pools'[h].closes = 1 /\ pools'[h].closed
                  /\ ~Exists(id)
                     => /\ ret'[t].err = ErrDatabaseNotFound
                        /\ UNCHANGED <<connections, dbs, pools>>
       /\ \A h \in DOMAIN pools :
            (\A i \in Ids : connections[i].ConnPool # h) => pools'[h] = pools[h]]_vars

C33_Witness ==
    \E t \in Threads :
        /\ Returned(t, "Disconnect")
        /\ call[t].id = "a" /\ call[t].conn = NoConn
        /\ ret[t].err = ErrDatabaseNotFound
        /\ connections["a"] = NoConn
        /\ Len(pools) = 1 /\ pools[1].closes = 1
        /\ dbs[1].ID = "a" /\ dbs[1].Status = Disconnected

\* C34: when the shutdown sequence of main has ended, the registry is empty
\* and Close has been called on every pool handle that was registered,
\* whatever the backends answered and whatever Close reported.
C34_ShutdownEmptiesRegistry ==
    (\E t \in Threads : pc[t] = "stopped")
    => /\ Present = {}
       /\ \A h \in DOMAIN pools : pools[h].closes >= 1

\* C35: every Database that passes Validate has a supported type (IsValid)
\* and can connect (CanConnect: host, username and password non-empty, port
\* above 0), so the second and third check of RegisterDatabase pass whenever
\* the first one did: RegisterDatabase never returns their errors.
C35_ValidateImpliesOtherChecks ==
    \A t \in Threads :
        Returned(t, "Validate")
        => LET db == call[t].arg
           IN /\ ret[t].err = nil
                 => /\ IsValid(db.Type)
                    /\ CanConnect(db)
                    /\ db.Host # "" /\ db.Username # "" /\ db.Password # ""
                    /\ db.Port > 0
                    /\ RegisterDatabaseChecks(db) = nil
              /\ RegisterDatabaseChecks(db)
                    \notin {ErrInvalidDatabaseType, ErrMissingCredentials}

C35_Witness ==
    \E t \in Threads :
        /\ Returned(t, "Validate")
        /\ ret[t].err = nil
        /\ call[t].arg.Type = Oracle11g /\ call[t].arg.Port = 1
        /\ CanConnect(call[t].arg)

\* C36: a thread outside the locked section of a registry operation (idle,
\* returned, or in adapter I/O after the lookup) holds no registry lock, on
\* every exit path; whoever holds the lock is inside a locked section whose
\* next step can be taken, so the threads never all wait for the lock; and,
\* the adapter and driver calls returning, every operation that was started
\* returns.
C36_LockReleasedAndTermination ==
    /\ [](\A t \in Threads :
            /\ pc[t] \in {"idle", "ret", "io"} => mu.w # t /\ t \notin mu.r
            /\ mu.w = t => pc[t] = "locked"
            /\ t \in mu.r => pc[t] \in {"rlocked", "probed"}
            /\ pc[t] = "ret" => ENABLED Return(t)
            /\ (Quiet /\ pc[t] # "idle") => ENABLED Finish(t))
    /\ []((\A t \in Threads : pc[t] = "idle") => mu = [w |-> "", r |-> {}])
    /\ \A t \in Threads : (pc[t] # "idle") ~> (pc[t] = "idle")

C36_Witness ==
    \E t, u \in Threads :
        /\ Returned(t, "Connect") /\ ret[t].err = ErrAlreadyConnected
        /\ mu = [w |-> "", r |-> {}]
        /\ pc[u] = "io"

====
